---- MODULE Spec2Model ----
(***************************************************************************)
(* Model of the CPU temperature applet: the temperature selector of        *)
(* src/sysinfo_utils.rs (get_temp and its helpers) and the message         *)
(* handling of the applet window of src/window.rs (Window::update and the  *)
(* tick subscription).                                                     *)
(*                                                                         *)
(* Strings are sequences of one-character strings, so that exact label     *)
(* comparison, the two regular expressions, u64 parsing and to_string are  *)
(* computed character by character.  Option<T> is a sequence of length 0   *)
(* (None) or 1 (Some(v)).  Temperatures (f32) are modelled by integers.    *)
(***************************************************************************)
EXTENDS Integers, Sequences, FiniteSets, TLC

VARIABLES
    components,        \* the sensor list enumerated by Components::new_with_refreshed_list
    called,            \* which function of sysinfo_utils.rs was applied last
    arg,               \* the component handed to get_overall_temperature_component_index
    ret_index,         \* its return value
    ret_overall,       \* return value of get_overall_cpu_temp
    ret_core,          \* return value of get_cpu_core_temps
    popup,             \* Window.popup : Option<Id>
    next_id,           \* counter behind Id::unique()
    rectangle_tracker, \* Window.rectangle_tracker : Option<RectangleTracker>
    rectangle,         \* Window.rectangle
    temp,              \* Window.temp : Option<f32>, the value returned by get_temp
    refresh_period,    \* value held by the watch channel Window.refresh_period
    period_string,     \* Window.period_string
    config,            \* Window.config : CPUTempAppletConfig
    disk_config,       \* the entry stored by cosmic_config (write_entry)
    period_changed,    \* the watch receiver of time_subscription has an unseen value
    timer_period       \* period of the tokio interval of time_subscription

vars == << components, called, arg, ret_index, ret_overall, ret_core,
           popup, next_id, rectangle_tracker, rectangle, temp, refresh_period,
           period_string, config, disk_config, period_changed, timer_period >>

selVars == << components, called, arg, ret_index, ret_overall, ret_core >>

winVars == << popup, next_id, rectangle_tracker, rectangle, refresh_period,
              period_string, config, disk_config, period_changed, timer_period >>

-----------------------------------------------------------------------------
(* Bounds of the model *)

\* longest sensor list enumerated
MaxSensors == 2

\* number of popup ids Id::unique() hands out
MaxIds == 2

-----------------------------------------------------------------------------
(* Option<T> *)

None == << >>

Some(v) == << v >>

is_some(o) == Len(o) = 1

is_none(o) == Len(o) = 0

-----------------------------------------------------------------------------
(* Labels *)

Tctl == << "T", "c", "t", "l" >>

PackageId0 == << "P", "a", "c", "k", "a", "g", "e", " ", "i", "d", " ", "0" >>

CPUTemperature ==
    << "C", "P", "U", " ", "T", "e", "m", "p", "e", "r", "a", "t", "u", "r", "e" >>

CPU0 == << "C", "P", "U", " ", "0" >>

CPU1 == << "C", "P", "U", " ", "1" >>

CPU12 == << "C", "P", "U", " ", "1", "2" >>

Tctl0 == << "T", "c", "t", "l", "0" >>

Tctl12 == << "T", "c", "t", "l", "1", "2" >>

Ambient == << "A", "m", "b", "i", "e", "n", "t" >>

\* labels a platform may report
Labels == { Tctl, PackageId0, CPUTemperature, CPU0, CPU1, CPU12, Tctl0, Tctl12, Ambient }

\* temperature readings a sensor may report (degrees Celsius), or none
Temperatures == { None, Some(40), Some(45), Some(60) }

\* sysinfo::Component, as far as the selector reads it
Component == [ label : Labels, temperature : Temperatures ]

\* sysinfo::Components in enumeration order
ComponentLists == UNION { [ 1..n -> Component ] : n \in 0..MaxSensors }

-----------------------------------------------------------------------------
(* src/sysinfo_utils.rs *)

OVERALL_CPU_TEMP_LABELS == << Tctl, PackageId0, CPUTemperature >>

MAX == 2147483647

Digits == { "0", "1", "2", "3", "4", "5", "6", "7", "8", "9" }

\* ^CPU [\d]{1}$ without the end anchor: the bug the exactness claim excludes
INTEL_CPU_REGEX_is_match_unanchored(label) ==
    /\ Len(label) >= 5
    /\ SubSeq(label, 1, 4) = << "C", "P", "U", " " >>
    /\ label[5] \in Digits

\* Regex ^CPU [\d]{1}$
INTEL_CPU_REGEX_is_match(label) ==
    /\ Len(label) = 5
    /\ SubSeq(label, 1, 4) = << "C", "P", "U", " " >>
    /\ label[5] \in Digits

\* Regex ^Tctl[\d]{1}$
AMD_CPU_REGEX_is_match(label) ==
    /\ Len(label) = 5
    /\ SubSeq(label, 1, 4) = << "T", "c", "t", "l" >>
    /\ label[5] \in Digits

\* the for loop of get_overall_temperature_component_index, at item k with
\* the local `index`
RECURSIVE index_loop(_, _, _)
index_loop(label, k, index) ==
    IF k > Len(OVERALL_CPU_TEMP_LABELS) THEN index
    ELSE IF OVERALL_CPU_TEMP_LABELS[k] = label THEN index
    ELSE index_loop(label, k + 1, index + 1)

get_overall_temperature_component_index(component) ==
    index_loop(component.label, 1, -1)

\* `priority >= current_priority`: keeps the first of two equal priorities
lower_priority_or_equal(priority, current_priority) == priority >= current_priority

\* the test `priority > current_priority` of get_overall_cpu_temp
lower_priority(priority, current_priority) == priority > current_priority

\* the for loop of get_overall_cpu_temp, at component k with the locals
\* `target` (0 for None, else the position of the component) and
\* `current_priority`; yields the final << target, current_priority >>
RECURSIVE overall_loop(_, _, _, _)
overall_loop(comps, k, target, current_priority) ==
    IF k > Len(comps) THEN << target, current_priority >>
    ELSE LET priority == get_overall_temperature_component_index(comps[k])
         IN  IF priority = -1
                 THEN overall_loop(comps, k + 1, target, current_priority)
             ELSE IF is_none(comps[k].temperature)
                 THEN overall_loop(comps, k + 1, target, current_priority)
             ELSE IF lower_priority(priority, current_priority)
                 THEN overall_loop(comps, k + 1, target, current_priority)
             ELSE overall_loop(comps, k + 1, k, priority)

\* returns the priority found instead of the temperature of the target
get_overall_cpu_temp_priority(comps) ==
    LET final == overall_loop(comps, 1, 0, MAX)
    IN  IF final[1] # 0 THEN Some(final[2]) ELSE None

get_overall_cpu_temp(comps) ==
    LET final == overall_loop(comps, 1, 0, MAX)
    IN  IF final[1] # 0 THEN comps[final[1]].temperature ELSE None

\* the for loop of get_cpu_core_temps, at component k with the vector `temps`
RECURSIVE core_loop(_, _, _)
core_loop(comps, k, temps) ==
    IF k > Len(comps) THEN temps
    ELSE LET t == IF INTEL_CPU_REGEX_is_match(comps[k].label)
                      THEN comps[k].temperature
                  ELSE IF AMD_CPU_REGEX_is_match(comps[k].label)
                      THEN comps[k].temperature
                  ELSE None
         IN  IF is_some(t) THEN core_loop(comps, k + 1, Append(temps, t[1]))
             ELSE core_loop(comps, k + 1, temps)

get_cpu_core_temps(comps) == core_loop(comps, 1, << >>)

\* Iterator::max_by with the comparator of get_temp: the fold keeps the
\* accumulated x only when the comparator says Greater, i.e. x > y
RECURSIVE max_by(_, _, _)
max_by(s, k, acc) ==
    IF k > Len(s) THEN acc
    ELSE max_by(s, k + 1, IF acc > s[k] THEN acc ELSE s[k])

\* get_temp on the list Components::new_with_refreshed_list() enumerated
get_temp(comps) ==
    LET overall_temp == get_overall_cpu_temp(comps)
    IN  IF is_some(overall_temp) THEN overall_temp
        ELSE LET cpu_temps == get_cpu_core_temps(comps)
             IN  IF Len(cpu_temps) = 0 THEN None
                 ELSE Some(max_by(cpu_temps, 2, cpu_temps[1]))

-----------------------------------------------------------------------------
(* The selector functions applied to an enumerated sensor list *)

InitWindow ==
    /\ popup = None
    /\ next_id = 0
    /\ rectangle_tracker = None
    /\ rectangle = [ x |-> 0, y |-> 0, width |-> 0, height |-> 0 ]
    /\ refresh_period = 1000
    /\ period_string = << "1", "0", "0", "0" >>
    /\ config = [ fahrenheit |-> FALSE, refresh_period_milliseconds |-> 1000 ]
    /\ disk_config = [ fahrenheit |-> FALSE, refresh_period_milliseconds |-> 1000 ]
    /\ period_changed = TRUE
    /\ timer_period = 1000

InitSel ==
    /\ components \in ComponentLists
    /\ called = "none"
    /\ arg = 0
    /\ ret_index = 0
    /\ ret_overall = None
    /\ ret_core = << >>
    /\ temp = None
    /\ InitWindow

CallIndex ==
    /\ called = "none"
    /\ \E i \in DOMAIN components :
          /\ arg' = i
          /\ ret_index' = get_overall_temperature_component_index(components[i])
    /\ called' = "get_overall_temperature_component_index"
    /\ UNCHANGED << components, ret_overall, ret_core, temp >>
    /\ UNCHANGED winVars

CallOverall ==
    /\ called = "none"
    /\ ret_overall' = get_overall_cpu_temp(components)
    /\ called' = "get_overall_cpu_temp"
    /\ UNCHANGED << components, arg, ret_index, ret_core, temp >>
    /\ UNCHANGED winVars

CallCoreTemps ==
    /\ called = "none"
    /\ ret_core' = get_cpu_core_temps(components)
    /\ called' = "get_cpu_core_temps"
    /\ UNCHANGED << components, arg, ret_index, ret_overall, temp >>
    /\ UNCHANGED winVars

CallGetTemp ==
    /\ called = "none"
    /\ temp' = get_temp(components)
    /\ called' = "get_temp"
    /\ UNCHANGED << components, arg, ret_index, ret_overall, ret_core >>
    /\ UNCHANGED winVars

NextSel ==
    \/ CallIndex
    \/ CallOverall
    \/ CallCoreTemps
    \/ CallGetTemp

SpecSel == InitSel /\ [][NextSel]_vars

-----------------------------------------------------------------------------
(* src/window.rs *)

\* the least refresh period Message::PeriodString accepts
MinPeriod == 500

DigitValue(c) ==
    CASE c = "0" -> 0 [] c = "1" -> 1 [] c = "2" -> 2 [] c = "3" -> 3 [] c = "4" -> 4
      [] c = "5" -> 5 [] c = "6" -> 6 [] c = "7" -> 7 [] c = "8" -> 8 [] c = "9" -> 9

DigitChar(n) ==
    CASE n = 0 -> "0" [] n = 1 -> "1" [] n = 2 -> "2" [] n = 3 -> "3" [] n = 4 -> "4"
      [] n = 5 -> "5" [] n = 6 -> "6" [] n = 7 -> "7" [] n = 8 -> "8" [] n = 9 -> "9"

\* the digit loop of str::parse::<u64>: None for Err(InvalidDigit).  The
\* inputs of the model stay far below u64::MAX, so PosOverflow cannot occur.
RECURSIVE parse_digits(_, _, _)
parse_digits(s, k, acc) ==
    IF k > Len(s) THEN Some(acc)
    ELSE IF s[k] \notin Digits THEN None
    ELSE parse_digits(s, k + 1, acc * 10 + DigitValue(s[k]))

\* input.parse::<u64>(): Ok(v) is Some(v), Err(_) is None.  An empty string
\* is an error, one leading "+" is accepted, a lone "+" is an error.
parse_u64(s) ==
    IF Len(s) = 0 THEN None
    ELSE LET digits == IF s[1] = "+" THEN Tail(s) ELSE s
         IN  IF Len(digits) = 0 THEN None ELSE parse_digits(digits, 1, 0)

\* u64::to_string
RECURSIVE to_string(_)
to_string(n) ==
    IF n < 10 THEN << DigitChar(n) >>
    ELSE to_string(n \div 10) \o << DigitChar(n % 10) >>

\* texts the user may have in the "Refresh Interval (ms)" input
PeriodInputs ==
    { << >>,
      << "5" >>,
      << "4", "9", "9" >>,
      << "5", "0", "0" >>,
      << "+", "6", "0", "0" >>,
      << "5", "x" >> }

\* refresh periods a configuration entry may hold
ConfigPeriods == { 100, 500, 1000 }

\* CPUTempAppletConfig values the config watcher may deliver
Configs == [ fahrenheit : BOOLEAN, refresh_period_milliseconds : ConfigPeriods ]

\* rectangles the rectangle tracker may report
Rectangles ==
    { [ x |-> 0, y |-> 0, width |-> 0, height |-> 0 ],
      [ x |-> 10, y |-> 0, width |-> 48, height |-> 32 ] }

\* sensor lists the platform may enumerate while the applet runs
TickInputs ==
    { << >>,
      << [ label |-> PackageId0, temperature |-> Some(45) ] >>,
      << [ label |-> Tctl, temperature |-> Some(60) ],
         [ label |-> CPU0, temperature |-> Some(40) ] >> }

\* Window::init
Init ==
    /\ \E c \in TickInputs :
          /\ components = c
          /\ temp = get_temp(c)
    /\ called = "get_temp"
    /\ arg = 0
    /\ ret_index = 0
    /\ ret_overall = None
    /\ ret_core = << >>
    /\ InitWindow

\* Config::new(..) followed by self.config.write_entry(&helper) for the
\* configuration c: the entry is stored, or either call fails and the error
\* is only logged
write_entry(c) ==
    \/ disk_config' = c
    \/ UNCHANGED disk_config

\* Message::TogglePopup with a popup open
TogglePopupClose ==
    /\ is_some(popup)
    /\ popup' = None
    /\ UNCHANGED << next_id, rectangle_tracker, rectangle, temp, refresh_period,
                    period_string, config, disk_config, period_changed, timer_period >>
    /\ UNCHANGED selVars

\* Message::TogglePopup with no popup open; main_window_id is
\* self.core.main_window_id().is_some()
TogglePopupOpen ==
    /\ is_none(popup)
    /\ \E main_window_id \in BOOLEAN :
          IF main_window_id
              THEN /\ next_id < MaxIds
                   /\ next_id' = next_id + 1
                   /\ popup' = Some(next_id + 1)
              ELSE UNCHANGED << popup, next_id >>
    /\ UNCHANGED << rectangle_tracker, rectangle, temp, refresh_period,
                    period_string, config, disk_config, period_changed, timer_period >>
    /\ UNCHANGED selVars

\* Message::PopupClosed(popup_id)
PopupClosed ==
    /\ \E popup_id \in 1..MaxIds :
          popup' = IF popup = Some(popup_id) THEN None ELSE popup
    /\ UNCHANGED << next_id, rectangle_tracker, rectangle, temp, refresh_period,
                    period_string, config, disk_config, period_changed, timer_period >>
    /\ UNCHANGED selVars

\* Message::Fahrenheit(fahrenheit)
Fahrenheit ==
    /\ \E fahrenheit \in BOOLEAN :
          /\ config' = [ config EXCEPT !.fahrenheit = fahrenheit ]
          /\ write_entry(config')
    /\ UNCHANGED << popup, next_id, rectangle_tracker, rectangle, temp, refresh_period,
                    period_string, period_changed, timer_period >>
    /\ UNCHANGED selVars

\* Message::Rectangle(RectangleUpdate::Rectangle(r))
RectangleUpdate ==
    /\ \E r \in Rectangles : rectangle' = r
    /\ UNCHANGED << popup, next_id, rectangle_tracker, temp, refresh_period,
                    period_string, config, disk_config, period_changed, timer_period >>
    /\ UNCHANGED selVars

\* Message::Rectangle(RectangleUpdate::Init(tracker))
RectangleInit ==
    /\ rectangle_tracker' = Some("tracker")
    /\ UNCHANGED << popup, next_id, rectangle, temp, refresh_period,
                    period_string, config, disk_config, period_changed, timer_period >>
    /\ UNCHANGED selVars

\* Message::Tick, sent by the interval of time_subscription
Tick ==
    /\ \E c \in TickInputs :
          /\ components' = c
          /\ temp' = get_temp(c)
    /\ called' = "get_temp"
    /\ UNCHANGED << arg, ret_index, ret_overall, ret_core >>
    /\ UNCHANGED winVars

\* Message::PeriodString(input)
PeriodString ==
    /\ \E input \in PeriodInputs :
          LET parsed == parse_u64(input)
          IN  /\ IF is_some(parsed) /\ parsed[1] >= MinPeriod
                     THEN /\ config' = [ config EXCEPT
                                           !.refresh_period_milliseconds = parsed[1] ]
                          /\ write_entry(config')
                     ELSE UNCHANGED << config, disk_config >>
              /\ period_string' = input
    /\ UNCHANGED << popup, next_id, rectangle_tracker, rectangle, temp, refresh_period,
                    period_changed, timer_period >>
    /\ UNCHANGED selVars

\* Message::ConfigChanged(c), sent by the config watcher
ConfigChanged ==
    /\ \E c \in Configs :
          /\ IF refresh_period = c.refresh_period_milliseconds
                 THEN UNCHANGED << refresh_period, period_string, period_changed >>
                 ELSE /\ refresh_period' = c.refresh_period_milliseconds
                      /\ period_string' = to_string(c.refresh_period_milliseconds)
                      /\ period_changed' = TRUE
          /\ config' = c
    /\ UNCHANGED << popup, next_id, rectangle_tracker, rectangle, temp,
                    disk_config, timer_period >>
    /\ UNCHANGED selVars

\* the period_watcher.changed() branch of the loop of time_subscription
PeriodWatcherChanged ==
    /\ period_changed
    /\ period_changed' = FALSE
    /\ timer_period' = refresh_period
    /\ UNCHANGED << popup, next_id, rectangle_tracker, rectangle, temp, refresh_period,
                    period_string, config, disk_config >>
    /\ UNCHANGED selVars

Next ==
    \/ TogglePopupClose
    \/ TogglePopupOpen
    \/ PopupClosed
    \/ Fahrenheit
    \/ RectangleUpdate
    \/ RectangleInit
    \/ Tick
    \/ PeriodString
    \/ ConfigChanged
    \/ PeriodWatcherChanged

Spec == Init /\ [][Next]_vars

-----------------------------------------------------------------------------
(* Notions the statements below are written in *)

\* the label equals an entry of the priority list
IsCanonical(label) ==
    \E k \in DOMAIN OVERALL_CPU_TEMP_LABELS : OVERALL_CPU_TEMP_LABELS[k] = label

\* zero-based position of a canonical label in the priority list
Position(label) ==
    (CHOOSE k \in DOMAIN OVERALL_CPU_TEMP_LABELS : OVERALL_CPU_TEMP_LABELS[k] = label) - 1

\* "CPU " or "Tctl" followed by exactly one digit
IsPerCore(label) ==
    \E d \in Digits :
        \/ label = << "C", "P", "U", " ", d >>
        \/ label = << "T", "c", "t", "l", d >>

\* "CPU " or "Tctl" followed by two or more digits
IsMultiDigit(label) ==
    /\ Len(label) >= 6
    /\ SubSeq(label, 1, 4) \in { << "C", "P", "U", " " >>, << "T", "c", "t", "l" >> }
    /\ \A k \in 5..Len(label) : label[k] \in Digits

HasTemp(c) == c.temperature # None

\* positions of the canonical sensors that report a temperature
CanonicalWithTemp(comps) ==
    { i \in DOMAIN comps : IsCanonical(comps[i].label) /\ HasTemp(comps[i]) }

\* positions of the per-core sensors that report a temperature
PerCoreWithTemp(comps) ==
    { i \in DOMAIN comps : IsPerCore(comps[i].label) /\ HasTemp(comps[i]) }

SetMax(S) == CHOOSE m \in S : \A x \in S : x <= m

\* what Phase B is specified to return: the hottest per-core reading, if any
PhaseB(comps) ==
    IF PerCoreWithTemp(comps) = {} THEN None
    ELSE Some(SetMax({ comps[i].temperature[1] : i \in PerCoreWithTemp(comps) }))

\* the Phase A candidates as the code computes them: a priority other than -1
\* and a temperature
Candidates(comps) ==
    { i \in DOMAIN comps :
        /\ get_overall_temperature_component_index(comps[i]) # -1
        /\ HasTemp(comps[i]) }

\* the candidates of best (numerically lowest) priority
BestCandidates(comps) ==
    { i \in Candidates(comps) :
        \A j \in Candidates(comps) :
            get_overall_temperature_component_index(comps[i])
                <= get_overall_temperature_component_index(comps[j]) }

SetMin(S) == CHOOSE m \in S : \A x \in S : m <= x

\* readings of the single-digit per-core sensors, in enumeration order
RECURSIVE PerCoreReadings(_, _)
PerCoreReadings(comps, k) ==
    IF k > Len(comps) THEN << >>
    ELSE IF IsPerCore(comps[k].label) /\ HasTemp(comps[k])
        THEN << comps[k].temperature[1] >> \o PerCoreReadings(comps, k + 1)
    ELSE PerCoreReadings(comps, k + 1)

-----------------------------------------------------------------------------
(* Claims about the selector, under SpecSel *)

\* C1: when two or more canonical sensors report a temperature, get_temp
\* returns the temperature of one whose label comes earliest in the priority
\* list (Tctl before Package id 0 before CPU Temperature).
C1_CanonicalPriority ==
    (called = "get_temp" /\ Cardinality(CanonicalWithTemp(components)) >= 2)
        => LET best == SetMin({ Position(components[i].label) :
                                  i \in CanonicalWithTemp(components) })
           IN  \E i \in CanonicalWithTemp(components) :
                  /\ Position(components[i].label) = best
                  /\ temp = components[i].temperature

\* C2: get_temp returns None whenever no sensor has both a temperature and a
\* recognized label (canonical, or of a per-core shape).
C2_NoneWithoutRecognized ==
    (called = "get_temp"
        /\ CanonicalWithTemp(components) = {}
        /\ PerCoreWithTemp(components) = {})
        => temp = None

\* C3: with no canonical sensor reporting and at least one per-core sensor
\* reporting, get_temp returns the maximum of the per-core temperatures.
C3_FallbackMax ==
    (called = "get_temp"
        /\ CanonicalWithTemp(components) = {}
        /\ PerCoreWithTemp(components) # {})
        => temp = PhaseB(components)

\* C4: when every canonical-labelled sensor lacks a temperature, Phase A
\* yields nothing and get_temp returns the Phase B result.
C4_MissingTemperatureSkipped ==
    (called = "get_temp"
        /\ (\E i \in DOMAIN components : IsCanonical(components[i].label))
        /\ CanonicalWithTemp(components) = {})
        => /\ get_overall_cpu_temp(components) = None
           /\ temp = PhaseB(components)

\* C5 as stated: among Phase A candidates of equal best priority the one seen
\* first is kept, so get_overall_cpu_temp returns the first one's temperature.
C5_FirstSeenWins ==
    (called = "get_overall_cpu_temp" /\ Candidates(components) # {})
        => ret_overall = components[SetMin(BestCandidates(components))].temperature

\* C5 amended: among Phase A candidates of equal best priority the one seen
\* last is kept (a later candidate is skipped only when its priority is
\* strictly worse), so get_overall_cpu_temp returns the last one's temperature,
\* and None when there is no candidate.
C5_LastSeenWins ==
    called = "get_overall_cpu_temp"
        => IF Candidates(components) = {} THEN ret_overall = None
           ELSE ret_overall = components[SetMax(BestCandidates(components))].temperature

\* two candidates of equal priority with different readings, and the later
\* one was returned
C5_Witness ==
    /\ called = "get_overall_cpu_temp"
    /\ Len(components) = 2
    /\ components[1].label = PackageId0
    /\ components[2].label = PackageId0
    /\ components[1].temperature = Some(40)
    /\ components[2].temperature = Some(60)
    /\ ret_overall = Some(60)

\* C6: a present result of get_temp is the temperature some sensor of the
\* input reports.
C6_ResultIsReported ==
    (called = "get_temp" /\ is_some(temp))
        => \E i \in DOMAIN components :
              HasTemp(components[i]) /\ components[i].temperature = temp

\* get_temp returned a reading while another sensor reported a different one
C6_Witness ==
    /\ called = "get_temp"
    /\ is_some(temp)
    /\ \E i, j \in DOMAIN components :
          /\ components[i].temperature = temp
          /\ HasTemp(components[j])
          /\ components[j].temperature # temp

\* C7: a label "CPU " or "Tctl" followed by two or more digits matches
\* neither per-core pattern, and the list get_cpu_core_temps builds holds the
\* readings of the single-digit per-core sensors only.
C7_PatternExactness ==
    called = "get_cpu_core_temps"
        => /\ \A i \in DOMAIN components :
                 IsMultiDigit(components[i].label)
                     => /\ ~INTEL_CPU_REGEX_is_match(components[i].label)
                        /\ ~AMD_CPU_REGEX_is_match(components[i].label)
           /\ ret_core = PerCoreReadings(components, 1)

\* get_cpu_core_temps ran on "CPU 12" with a reading next to "CPU 0" and
\* kept only the reading of "CPU 0"
C7_Witness ==
    /\ called = "get_cpu_core_temps"
    /\ Len(components) = 2
    /\ components[1] = [ label |-> CPU12, temperature |-> Some(60) ]
    /\ components[2] = [ label |-> CPU0, temperature |-> Some(40) ]
    /\ ret_core = << 40 >>

\* C8: get_overall_temperature_component_index returns the position of a
\* canonical label in the priority list (non-negative), and -1 exactly when
\* the label equals no entry.
C8_IndexIsPosition ==
    called = "get_overall_temperature_component_index"
        => LET label == components[arg].label
           IN  /\ IsCanonical(label) => (ret_index = Position(label) /\ ret_index >= 0)
               /\ (ret_index = -1) <=> ~IsCanonical(label)

\* C9: whenever a canonical sensor reports a temperature, get_temp returns
\* the temperature of a canonical sensor.
C9_CanonicalAuthoritative ==
    (called = "get_temp" /\ CanonicalWithTemp(components) # {})
        => \E i \in CanonicalWithTemp(components) : temp = components[i].temperature

-----------------------------------------------------------------------------
(* Claims about the window, under Spec *)

\* C10: after any sequence of messages handled by Window::update, the refresh
\* period held in the watch channel, from which the tick timer takes its
\* interval, is at least 500 ms.
C10_RefreshPeriodAtLeastMin == refresh_period >= MinPeriod

====
